---- MODULE Spec2Model ----
(***************************************************************************)
(* Model of web/src/app/page.tsx (component Home): the reconnecting        *)
(* WebSocket of the mount effect (connectWebSocket, ws.onopen, ws.onclose, *)
(* ws.onerror, ws.onmessage, the heartbeat interval, the effect cleanup)   *)
(* and the data side (fetchEvents, handleSync, handleDateRangeChange, the  *)
(* selection effect).                                                      *)
(*                                                                         *)
(* The browser is single threaded: every handler runs to completion, so    *)
(* every action below is one handler (or one continuation after an await). *)
(* The mount effect may run more than once for the same component (React   *)
(* runs cleanup and the effect again on a re-mount); every run has its own *)
(* closure variables (isConnecting, reconnectAttempts, reconnectTimeout),  *)
(* indexed here by the run number, while wsRef and the React state live in *)
(* the component and are shared.                                           *)
(***************************************************************************)
EXTENDS Integers, Sequences, FiniteSets, TLC

\* ------------------------------------------------------------ bounds
MaxMounts == 2
MaxSockets == 3
MaxInFlight == 3
MaxSyncs == 2
MaxEdits == 2
MaxCommands == 1
MaxCommandLen == 2
MaxEvents == 3

\* ------------------------------------------------------------ constants
maxReconnectAttempts == 5
BaseDelayMs == 1000
MaxDelayMs == 10000

Gens == 1..MaxMounts
SocketIds == 1..MaxSockets
Null == 0
Dates == {1, 2}
EventIds == {1, 2}
Ranges == {"day", "week", "month"}
NoSel == <<0, "none">>
NoError == "null"

\* The values of a `Date | null` state of EventForm: null, a Date whose time
\* value is NaN (what the picker hands to onChange for a partly filled field),
\* or an instant; initialDate, and the hour after it.
NullDate == 0
InvalidDate == -1
InitialDate == 1
Instants == {1, 2}
FormDates == {NullDate, InvalidDate} \cup Instants
NotSubmitted == <<>>

\* run_web.sh: the polls of each health wait and of the port check, and the
\* processes its cleanup looks for: the holders of the two ports, and any
\* other process whose command line matches uvicorn or next.
MaxPolls == 30
MaxPortChecks == 5
Unset == 0
BackendPid == 1
FrontendPid == 2
Strays == {"port8000", "port3000", "uvicorn", "next"}
NotLaunched ==
  [pc |-> "notLaunched", status |-> -1, BACKEND_PID |-> Unset,
   FRONTEND_PID |-> Unset, i |-> 0, procs |-> {}, venv |-> FALSE,
   signalled |-> FALSE, setUp |-> FALSE]

CONNECTING == "CONNECTING"
OPEN == "OPEN"
CLOSING == "CLOSING"
CLOSED == "CLOSED"

VARIABLES
  mountCount,         \* how many times the mount effect has run
  mounted,            \* the effect is active (its cleanup has not run)
  isConnecting,       \* [Gens -> BOOLEAN], closure variable of each run
  reconnectAttempts,  \* [Gens -> 0..5], closure variable of each run
  wsRef,              \* wsRef.current: a socket id, or Null
  sockets,            \* [SocketIds -> [readyState, gen]]: the WebSockets; gen
                      \* is the effect run whose handlers the socket carries
  timers,             \* the pending reconnect timers: {[gen, delay, handle]};
                      \* handle: reconnectTimeout of run gen refers to it
  heartbeatInterval,  \* the runs whose heartbeat interval is active
  sent,               \* the sockets the last handler sent a ping frame to
  mountSel,           \* [Gens -> selection] captured by each run's closure
  selectedDate,
  selectedDateRange,
  events,
  loading,
  syncing,
  error,
  syncStatus,
  fetches,            \* fetchEvents calls awaiting the api, in issue order
  timeouts,           \* pending setTimeout(fetchEvents, 0), in issue order
  syncRequests,       \* api.syncCalendar() calls awaiting their response
  eventFormOpen,
  deleted,            \* the ids handleDeleteEvent filtered out of events
  mutations,          \* api.createEvent / api.deleteEvent calls awaiting
                      \* their response, each with what its closure captured
  command,            \* the text of the command input, a sequence of characters
  commandRequests,    \* api.sendCommand() calls awaiting their response
  title,              \* EventForm's state: the title, a sequence of characters,
  startDate,          \* the start and end (a Date or null),
  endDate,
  errors,             \* and the validation messages, {<<field, message>>}
  submitted,          \* history: the eventData the last handler passed to
                      \* onSubmit, or NotSubmitted
  eventList,          \* EventList's props (events, date, dateRange) at its
                      \* last render, and the filteredEvents it computed
  script,             \* a run of run_web.sh: its position, exit status,
                      \* BACKEND_PID, FRONTEND_PID, loop counter, and the
                      \* processes and venv directory of the machine
  lastOp,             \* <<the handler that ran last, its effect run or 0>>
  received,           \* history: what the handler that ran last was handed (a
                      \* frame, a sync response, a fetch outcome), or NoInput
  honored             \* history: what the fetchEvents call issued last gave
                      \* to setEvents, Pending while it is in flight

connVars == <<mountCount, mounted, isConnecting, reconnectAttempts,
              wsRef, sockets, timers, heartbeatInterval>>
dataVars == <<selectedDate, selectedDateRange, events, loading, syncing,
              error, syncStatus, fetches, timeouts, syncRequests>>
editVars == <<eventFormOpen, deleted, mutations>>
commandVars == <<command, commandRequests>>
formVars == <<title, startDate, endDate, errors>>
vars == <<connVars, sent, mountSel, dataVars, editVars, commandVars, formVars,
          lastOp, received, honored, submitted, script, eventList>>

\* ------------------------------------------------------------ helpers
Min(a, b) == IF a < b THEN a ELSE b

Pow2(n) == 2 ^ n

DefaultSyncStatus ==
  [success |-> FALSE, new_events |-> 0, updated_events |-> 0,
   deleted_events |-> 0, errors |-> <<>>]

\* The Event set is modelled by the api call that produced it: [] (the
\* initial value, and what a failed fetch sets) or the answer to one call.
EmptyEvents == <<"[]", 0>>

Selection == <<selectedDate, selectedDateRange>>

\* ------------------------------------------------------------ connection
\* The closure variables of the effect runs, wsRef, the sockets and the
\* reconnect timers, as one value the handlers below transform.
Conn ==
  [isConnecting |-> isConnecting, reconnectAttempts |-> reconnectAttempts,
   wsRef |-> wsRef, sockets |-> sockets, timers |-> timers]

SetConn(c) ==
  /\ isConnecting' = c.isConnecting
  /\ reconnectAttempts' = c.reconnectAttempts
  /\ wsRef' = c.wsRef
  /\ sockets' = c.sockets
  /\ timers' = c.timers

\* A socket that is CLOSED receives no further event and nothing refers to it
\* (ws.onclose clears wsRef.current): its id is free for the next socket.
NoSocket == [readyState |-> CLOSED, gen |-> 0]
FreeIds(socks) == {i \in SocketIds : socks[i].readyState = CLOSED}
NewSocketId(socks) == CHOOSE i \in FreeIds(socks) : \A j \in FreeIds(socks) : i <= j

\* Mutation of ReconnectDelay: the delay computed from the counter before its
\* increment.
ReconnectDelayBeforeIncrement(n) == Min(BaseDelayMs * Pow2(n - 1), MaxDelayMs)

\* Math.min(1000 * Math.pow(2, reconnectAttempts), 10000), evaluated after
\* reconnectAttempts++ : n is the incremented counter.
ReconnectDelay(n) == Min(BaseDelayMs * Pow2(n), MaxDelayMs)

\* Mutation of ScheduleReconnect: the counter advanced by 2.
ScheduleReconnectSkipping(g, c) ==
  LET n == c.reconnectAttempts[g] + 2
      older == {[t EXCEPT !.handle = (t.gen # g /\ t.handle)] : t \in c.timers}
  IN [c EXCEPT !.reconnectAttempts[g] = n,
               !.timers = older \cup {[gen |-> g, delay |-> Min(1000 * 2 ^ n, 10000),
                                       handle |-> TRUE]}]

\* reconnectAttempts++; delay = ...; reconnectTimeout = setTimeout(...)
ScheduleReconnect(g, c) ==
  LET n == c.reconnectAttempts[g] + 1
      older == {[t EXCEPT !.handle = (t.gen # g /\ t.handle)] : t \in c.timers}
  IN [c EXCEPT !.reconnectAttempts[g] = n,
               !.timers = older \cup {[gen |-> g, delay |-> ReconnectDelay(n),
                                       handle |-> TRUE]}]

\* WebSocket.close(): a connecting or open socket starts closing; its close
\* event is delivered later (WsOnClose). Closing or closed: no effect.
CloseSocket(s, socks) ==
  IF socks[s].readyState \in {CONNECTING, OPEN}
  THEN [socks EXCEPT ![s].readyState = CLOSING]
  ELSE socks

\* Mutation of SkipConnect: the guard without the retry budget.
SkipConnectNoBudget(g, c) == c.isConnecting[g]

\* The guard of connectWebSocket (page.tsx 38).
SkipConnect(g, c) ==
  c.isConnecting[g] \/ c.reconnectAttempts[g] >= maxReconnectAttempts

\* The model's bound on the sockets alive at once: a call that creates a
\* socket needs a free id.
CanConnect(g, ctorFails, c) ==
  SkipConnect(g, c) \/ ctorFails \/ FreeIds(c.sockets) # {}

\* Mutation of connectWebSocket: the existing socket is closed before the guard
\* is tested.
connectWebSocketClosingFirst(g, ctorFails, c) ==
  LET c0 == IF c.wsRef # Null
            THEN [c EXCEPT !.sockets = CloseSocket(c.wsRef, @), !.wsRef = Null]
            ELSE c
  IN IF SkipConnect(g, c0) THEN c0
     ELSE IF ctorFails
          THEN ScheduleReconnect(g, c0)
          ELSE [c0 EXCEPT !.isConnecting[g] = TRUE,
                          !.sockets[NewSocketId(c0.sockets)] =
                             [readyState |-> CONNECTING, gen |-> g],
                          !.wsRef = NewSocketId(c0.sockets)]

\* connectWebSocket of effect run g; ctorFails: new WebSocket(url) throws.
connectWebSocket(g, ctorFails, c) ==
  IF SkipConnect(g, c) THEN c
  ELSE
    LET c1 == [c EXCEPT !.isConnecting[g] = TRUE]
        c2 == IF c1.wsRef # Null
              THEN [c1 EXCEPT !.sockets = CloseSocket(c1.wsRef, @), !.wsRef = Null]
              ELSE c1
    IN IF ctorFails
       THEN LET c3 == [c2 EXCEPT !.isConnecting[g] = FALSE]
            IN IF c3.reconnectAttempts[g] < maxReconnectAttempts
               THEN ScheduleReconnect(g, c3)
               ELSE c3
       ELSE LET ws == NewSocketId(c2.sockets)
            IN [c2 EXCEPT !.sockets[ws] = [readyState |-> CONNECTING, gen |-> g],
                          !.wsRef = ws]

\* ws.onopen of socket s.
onopen(s, c) ==
  LET g == c.sockets[s].gen
  IN [c EXCEPT !.isConnecting[g] = FALSE, !.reconnectAttempts[g] = 0]

\* Mutation of onerror: the error handler schedules a reconnect of its own.
onerrorReconnecting(s, c) ==
  ScheduleReconnect(c.sockets[s].gen,
                    [c EXCEPT !.isConnecting[c.sockets[s].gen] = FALSE])

\* ws.onerror of socket s.
onerror(s, c) ==
  [c EXCEPT !.isConnecting[c.sockets[s].gen] = FALSE]

\* ws.onclose of socket s.
onclose(s, c) ==
  LET g == c.sockets[s].gen
      c1 == [c EXCEPT !.isConnecting[g] = FALSE, !.wsRef = Null]
  IN IF c1.reconnectAttempts[g] < maxReconnectAttempts
     THEN ScheduleReconnect(g, c1)
     ELSE c1

\* clearTimeout(reconnectTimeout); ...; wsRef.current.close(); wsRef.current = null
cleanup(g, c) ==
  LET c1 == [c EXCEPT !.timers = {t \in @ : ~(t.gen = g /\ t.handle)}]
  IN IF c1.wsRef # Null
     THEN [c1 EXCEPT !.sockets = CloseSocket(c1.wsRef, @), !.wsRef = Null]
     ELSE c1

\* ------------------------------------------------------------ data
\* The api call fetchEvents makes for the selection its closure captured.
ApiResult(sel) ==
  IF sel[2] = "day" THEN <<"getEventsForRange", sel[1]>>
  ELSE IF sel[2] = "month" THEN <<"getMonthEvents", 0>>
  ELSE <<"getWeekEvents", 0>>

\* Mutation of IssueFetch: the request is made twice.
IssueFetchTwice(fs, sel) == Append(Append(fs, [sel |-> sel]), [sel |-> sel])

\* fetchEvents() up to its await: the request, for the selection the closure
\* holds, is in flight.
IssueFetch(fs, sel) == Append(fs, [sel |-> sel])

\* Mutation of FetchResult: a failed fetch keeps the Event set on display.
FetchResultKeeping(f, ok) == IF ok THEN ApiResult(f.sel) ELSE events

\* The value fetchEvents hands to setEvents: the api's answer, [] on failure.
FetchResult(f, ok) ==
  IF ok THEN ApiResult(f.sel) ELSE EmptyEvents

Pending == <<"pending", 0>>

RemoveAt(q, i) == SubSeq(q, 1, i - 1) \o SubSeq(q, i + 1, Len(q))

\* The sync payloads the server may send (data.data of a sync_complete frame,
\* or the response of api.syncCalendar): has names the fields present.
SyncFields == {"success", "new_events", "updated_events", "deleted_events", "errors"}
EmptyPayload ==
  [has |-> {}, success |-> FALSE, new_events |-> 0, updated_events |-> 0,
   deleted_events |-> 0, errors |-> <<>>]
Payloads ==
  { [has |-> SyncFields, success |-> TRUE, new_events |-> 3, updated_events |-> 1,
     deleted_events |-> 0, errors |-> <<>>],
    EmptyPayload,
    [has |-> {"success", "new_events", "errors"}, success |-> FALSE, new_events |-> 2,
     updated_events |-> 0, deleted_events |-> 0, errors |-> <<"quota">>],
    [has |-> SyncFields, success |-> TRUE, new_events |-> -1, updated_events |-> 1,
     deleted_events |-> 0, errors |-> <<>>] }

\* x?.f || d for a count, a flag, a list.
OrNumber(p, f, d) == IF f \in p.has /\ p[f] # 0 THEN p[f] ELSE d
OrFlag(p, f, d) == IF f \in p.has /\ p[f] THEN p[f] ELSE d
OrList(p, f, d) == IF f \in p.has THEN p[f] ELSE d

\* Mutation of ToSyncStatus: a payload that lacks any field is replaced by the
\* defaults as a whole.
ToSyncStatusAllOrNothing(p) ==
  IF p.has = SyncFields
  THEN [success |-> p.success, new_events |-> p.new_events,
        updated_events |-> p.updated_events,
        deleted_events |-> p.deleted_events, errors |-> p.errors]
  ELSE DefaultSyncStatus

\* Mutation of ToSyncStatus: a field the payload lacks keeps the value of the
\* current SyncStatus.
ToSyncStatusMerging(p) ==
  [success |-> IF "success" \in p.has THEN p.success ELSE syncStatus.success,
   new_events |-> IF "new_events" \in p.has THEN p.new_events
                  ELSE syncStatus.new_events,
   updated_events |-> IF "updated_events" \in p.has THEN p.updated_events
                      ELSE syncStatus.updated_events,
   deleted_events |-> IF "deleted_events" \in p.has THEN p.deleted_events
                      ELSE syncStatus.deleted_events,
   errors |-> IF "errors" \in p.has THEN p.errors ELSE syncStatus.errors]

\* The object handed to setSyncStatus (page.tsx 141-147, 253-259).
ToSyncStatus(p) ==
  [success |-> OrFlag(p, "success", FALSE),
   new_events |-> OrNumber(p, "new_events", 0),
   updated_events |-> OrNumber(p, "updated_events", 0),
   deleted_events |-> OrNumber(p, "deleted_events", 0),
   errors |-> OrList(p, "errors", <<>>)]

FailedSyncStatus ==
  [success |-> FALSE, new_events |-> 0, updated_events |-> 0,
   deleted_events |-> 0, errors |-> <<"Sync failed: error">>]

\* What a handler may be handed. A frame is event.data of ws.onmessage:
\*   kind "malformed": not JSON, JSON.parse throws;
\*   kind "null": the JSON text null, data.type throws;
\*   kind "scalar": a JSON number or string, data.type is undefined;
\*   kind "json": an object with a type and, for sync_complete, its payload
\*     under the key "data" or "stats", or under no key at all ("none").
Input(kind, type, key, data) ==
  [kind |-> kind, type |-> type, key |-> key, data |-> data]
NoInput == Input("none", "", "", EmptyPayload)

Frames ==
  {Input(k, "", "", EmptyPayload) : k \in {"malformed", "null", "scalar"}}
  \cup {Input("json", t, "", EmptyPayload) :
          t \in {"connection_established", "pong", "ping", "event_created"}}
  \cup {Input("json", "sync_complete", "data", p) : p \in Payloads}
  \cup {Input("json", "sync_complete", "stats", p) : p \in Payloads}
  \cup {Input("json", "sync_complete", "none", EmptyPayload)}

\* Mutation of Dispatch: a frame that is no JSON object is taken for a
\* sync_complete.
DispatchLenient(frame) ==
  IF frame.kind # "json" THEN "sync_complete"
  ELSE IF frame.type \in {"connection_established", "sync_complete", "pong"}
       THEN frame.type
       ELSE "unknown"

\* Mutation of Dispatch: a type the handler does not know is taken for a
\* sync_complete.
DispatchUnknownAsSync(frame) ==
  IF frame.kind \in {"malformed", "null"} THEN "caught"
  ELSE IF frame.kind = "scalar" THEN "unknown"
  ELSE IF frame.type \in {"connection_established", "pong"}
       THEN frame.type
       ELSE "sync_complete"

\* The branch ws.onmessage takes (page.tsx 132-157): "caught" when JSON.parse or
\* data.type throws, else the branch of data.type.
Dispatch(frame) ==
  IF frame.kind \in {"malformed", "null"} THEN "caught"
  ELSE IF frame.kind = "scalar" THEN "unknown"
  ELSE IF frame.type \in {"connection_established", "sync_complete", "pong"}
       THEN frame.type
       ELSE "unknown"

\* data?.data of a frame: the payload under the key "data", else undefined,
\* every field of which is absent.
PayloadOf(frame) == IF frame.key = "data" THEN frame.data ELSE EmptyPayload

\* ------------------------------------------------------------ initial state
\* The component after its first render, before any effect has run.
Init ==
  /\ mountCount = 0
  /\ mounted = FALSE
  /\ isConnecting = [g \in Gens |-> FALSE]
  /\ reconnectAttempts = [g \in Gens |-> 0]
  /\ wsRef = Null
  /\ sockets = [i \in SocketIds |-> NoSocket]
  /\ timers = {}
  /\ heartbeatInterval = {}
  /\ sent = <<>>
  /\ mountSel = [g \in Gens |-> NoSel]
  /\ selectedDate = 1
  /\ selectedDateRange = "week"
  /\ events = EmptyEvents
  /\ loading = FALSE
  /\ syncing = FALSE
  /\ error = NoError
  /\ syncStatus = DefaultSyncStatus
  /\ fetches = <<>>
  /\ timeouts = <<>>
  /\ syncRequests = 0
  /\ eventFormOpen = FALSE
  /\ deleted = {}
  /\ mutations = <<>>
  /\ command = <<>>
  /\ commandRequests = 0
  /\ title = <<>>
  /\ startDate = InitialDate
  /\ endDate = InitialDate + 1
  /\ errors = {}
  /\ submitted = NotSubmitted
  /\ script = NotLaunched
  /\ eventList = [events |-> <<>>, date |-> 0, dateRange |-> "week",
                  filteredEvents |-> <<>>]
  /\ lastOp = <<"init", 0>>
  /\ received = NoInput
  /\ honored = EmptyEvents

\* ------------------------------------------------------------ effect, socket
\* The mount effect (page.tsx 30-190) and, after it, the selection effect
\* (341-344), which also runs on mount: connectWebSocket(false), the heartbeat
\* interval, and two fetchEvents calls.
Mount(ctorFails) ==
  /\ ~mounted
  /\ mountCount < MaxMounts
  /\ Len(fetches) + 2 <= MaxInFlight
  /\ LET g == mountCount + 1
         c == connectWebSocket(g, ctorFails, Conn)
     IN /\ CanConnect(g, ctorFails, Conn)
        /\ SetConn(c)
        /\ mountCount' = g
        /\ mountSel' = [mountSel EXCEPT ![g] = Selection]
        /\ heartbeatInterval' = heartbeatInterval \cup {g}
        /\ lastOp' = <<"mount", g>>
  /\ UNCHANGED commandVars
  /\ UNCHANGED <<formVars, submitted>>
  /\ UNCHANGED script
  /\ UNCHANGED eventList
  /\ received' = NoInput
  /\ UNCHANGED editVars
  /\ mounted' = TRUE
  /\ fetches' = IssueFetch(IssueFetch(fetches, Selection), Selection)
  /\ honored' = Pending
  /\ loading' = TRUE
  /\ sent' = <<>>
  /\ UNCHANGED <<selectedDate, selectedDateRange, events, syncing, error,
                 syncStatus, timeouts, syncRequests>>

\* The cleanup the mount effect returns (page.tsx 191-200).
Cleanup ==
  /\ mounted
  /\ SetConn(cleanup(mountCount, Conn))
  /\ heartbeatInterval' = heartbeatInterval \ {mountCount}
  /\ mounted' = FALSE
  /\ sent' = <<>>
  /\ lastOp' = <<"cleanup", mountCount>>
  /\ UNCHANGED commandVars
  /\ UNCHANGED <<formVars, submitted>>
  /\ UNCHANGED script
  /\ UNCHANGED eventList
  /\ received' = NoInput
  /\ UNCHANGED editVars
  /\ UNCHANGED honored
  /\ UNCHANGED <<mountCount, mountSel, dataVars>>

\* A reconnect timer fires: () => connectWebSocket(useFallbackPath).
TimerFired(t, ctorFails) ==
  /\ t \in timers
  /\ CanConnect(t.gen, ctorFails, Conn)
  /\ SetConn(connectWebSocket(t.gen, ctorFails, [Conn EXCEPT !.timers = @ \ {t}]))
  /\ sent' = <<>>
  /\ lastOp' = <<"timer", t.gen>>
  /\ UNCHANGED commandVars
  /\ UNCHANGED <<formVars, submitted>>
  /\ UNCHANGED script
  /\ UNCHANGED eventList
  /\ received' = NoInput
  /\ UNCHANGED editVars
  /\ UNCHANGED honored
  /\ UNCHANGED <<mountCount, mounted, heartbeatInterval, mountSel, dataVars>>

\* Mutation of WsOnOpen: ws.onopen sends no ping.
WsOnOpenSilent(s, sendFails) ==
  /\ sockets[s].readyState = CONNECTING
  /\ SetConn(onopen(s, [Conn EXCEPT !.sockets[s].readyState = OPEN]))
  /\ sent' = <<>>
  /\ lastOp' = <<"onopen", sockets[s].gen>>
  /\ UNCHANGED commandVars
  /\ UNCHANGED <<formVars, submitted>>
  /\ UNCHANGED script
  /\ UNCHANGED eventList
  /\ received' = IF sendFails THEN Input("sendFailed", "", "", EmptyPayload)
                 ELSE NoInput
  /\ UNCHANGED <<honored, editVars>>
  /\ UNCHANGED <<mountCount, mounted, heartbeatInterval, mountSel, dataVars>>

\* The open event of socket s: readyState becomes OPEN and ws.onopen runs
\* (page.tsx 84-97), which sends the initial ping inside a try whose catch
\* only logs; sendFails: ws.send throws.
WsOnOpen(s, sendFails) ==
  /\ sockets[s].readyState = CONNECTING
  /\ SetConn(onopen(s, [Conn EXCEPT !.sockets[s].readyState = OPEN]))
  /\ sent' = IF sendFails THEN <<>> ELSE <<s>>
  /\ lastOp' = <<"onopen", sockets[s].gen>>
  /\ UNCHANGED commandVars
  /\ UNCHANGED <<formVars, submitted>>
  /\ UNCHANGED script
  /\ UNCHANGED eventList
  /\ received' = IF sendFails THEN Input("sendFailed", "", "", EmptyPayload)
                 ELSE NoInput
  /\ UNCHANGED editVars
  /\ UNCHANGED honored
  /\ UNCHANGED <<mountCount, mounted, heartbeatInterval, mountSel, dataVars>>

\* The close event of socket s (a failed or lost connection, or the close
\* handshake after close()): readyState becomes CLOSED; when the connection
\* failed the error event is fired first (ws.onerror), then ws.onclose runs.
WsOnClose(s, failed) ==
  /\ sockets[s].readyState \in {CONNECTING, OPEN, CLOSING}
  /\ LET c1 == IF failed THEN onerror(s, Conn) ELSE Conn
         c == onclose(s, c1)
     IN SetConn([c EXCEPT !.sockets[s] = NoSocket])
  /\ sent' = <<>>
  /\ lastOp' = <<"onclose", sockets[s].gen>>
  /\ UNCHANGED commandVars
  /\ UNCHANGED <<formVars, submitted>>
  /\ UNCHANGED script
  /\ UNCHANGED eventList
  /\ received' = NoInput
  /\ UNCHANGED editVars
  /\ UNCHANGED honored
  /\ UNCHANGED <<mountCount, mounted, heartbeatInterval, mountSel, dataVars>>

\* One tick of the heartbeat interval of effect run g (page.tsx 180-185).
HeartbeatTick(g) ==
  /\ g \in heartbeatInterval
  /\ sent' = IF wsRef # Null /\ sockets[wsRef].readyState = OPEN
             THEN <<wsRef>> ELSE <<>>
  /\ lastOp' = <<"heartbeat", g>>
  /\ UNCHANGED commandVars
  /\ UNCHANGED <<formVars, submitted>>
  /\ UNCHANGED script
  /\ UNCHANGED eventList
  /\ received' = NoInput
  /\ UNCHANGED editVars
  /\ UNCHANGED honored
  /\ UNCHANGED <<connVars, mountSel, dataVars>>

\* ws.onmessage of socket s (page.tsx 130-158). The fetchEvents it calls is
\* the one the effect's closure captured when run g mounted.
WsOnMessage(s, frame) ==
  /\ sockets[s].readyState = OPEN
  /\ IF Dispatch(frame) = "sync_complete"
     THEN /\ Len(fetches) < MaxInFlight
          /\ syncStatus' = ToSyncStatus(PayloadOf(frame))
          /\ syncing' = FALSE
          /\ fetches' = IssueFetch(fetches, mountSel[sockets[s].gen])
          /\ honored' = Pending
          /\ loading' = TRUE
     ELSE UNCHANGED <<syncStatus, syncing, fetches, loading, honored>>
  /\ sent' = <<>>
  /\ lastOp' = <<"onmessage", sockets[s].gen>>
  /\ UNCHANGED commandVars
  /\ UNCHANGED <<formVars, submitted>>
  /\ UNCHANGED script
  /\ UNCHANGED eventList
  /\ received' = frame
  /\ UNCHANGED editVars
  /\ UNCHANGED <<connVars, mountSel, selectedDate, selectedDateRange, events,
                 error, timeouts, syncRequests>>

\* ------------------------------------------------------------ fetch, sync
\* The api call of fetches[i] settles and fetchEvents resumes after its await
\* (page.tsx 228-243): setError on failure, setEvents(data), setLoading(false).
FetchResolve(i, ok) ==
  /\ i \in 1..Len(fetches)
  /\ events' = FetchResult(fetches[i], ok)
  /\ error' = IF ok THEN error ELSE "Failed to fetch events from server"
  /\ fetches' = RemoveAt(fetches, i)
  /\ honored' = IF i = Len(fetches) /\ honored = Pending
                THEN FetchResult(fetches[i], ok)
                ELSE honored
  /\ loading' = FALSE
  /\ sent' = <<>>
  /\ lastOp' = <<"fetchResolved", 0>>
  /\ UNCHANGED commandVars
  /\ UNCHANGED <<formVars, submitted>>
  /\ UNCHANGED script
  /\ UNCHANGED eventList
  /\ received' = Input(IF ok THEN "fetchOk" ELSE "fetchFailed", "", "", EmptyPayload)
  /\ deleted' = {}
  /\ UNCHANGED <<eventFormOpen, mutations>>
  /\ UNCHANGED <<connVars, mountSel, selectedDate, selectedDateRange, syncing,
                 syncStatus, timeouts, syncRequests>>

\* Calendar's onDateSelect={setSelectedDate}; the re-render runs the selection
\* effect (page.tsx 341-344), whose fetchEvents sees the new selection.
setSelectedDate(d) ==
  /\ mounted
  /\ d # selectedDate
  /\ Len(fetches) < MaxInFlight
  /\ selectedDate' = d
  /\ fetches' = IssueFetch(fetches, <<d, selectedDateRange>>)
  /\ honored' = Pending
  /\ loading' = TRUE
  /\ sent' = <<>>
  /\ lastOp' = <<"setSelectedDate", 0>>
  /\ UNCHANGED commandVars
  /\ UNCHANGED <<formVars, submitted>>
  /\ UNCHANGED script
  /\ UNCHANGED eventList
  /\ received' = NoInput
  /\ UNCHANGED editVars
  /\ UNCHANGED <<connVars, mountSel, selectedDateRange, events, syncing, error,
                 syncStatus, timeouts, syncRequests>>

\* handleDateRangeChange(range) (page.tsx 296-300): setSelectedDateRange(range)
\* and setTimeout(fetchEvents, 0) with the fetchEvents of the render the click
\* happened in; when the range changed, the re-render runs the selection
\* effect before the timeout fires.
handleDateRangeChange(range) ==
  /\ mounted
  /\ Len(fetches) + Len(timeouts) + 2 <= MaxInFlight
  /\ selectedDateRange' = range
  /\ timeouts' = Append(timeouts, Selection)
  /\ IF range # selectedDateRange
     THEN /\ fetches' = IssueFetch(fetches, <<selectedDate, range>>)
          /\ honored' = Pending
          /\ loading' = TRUE
     ELSE UNCHANGED <<fetches, loading, honored>>
  /\ sent' = <<>>
  /\ lastOp' = <<"handleDateRangeChange", 0>>
  /\ UNCHANGED commandVars
  /\ UNCHANGED <<formVars, submitted>>
  /\ UNCHANGED script
  /\ UNCHANGED eventList
  /\ received' = NoInput
  /\ UNCHANGED editVars
  /\ UNCHANGED <<connVars, mountSel, selectedDate, events, syncing, error,
                 syncStatus, syncRequests>>

\* The oldest setTimeout(fetchEvents, 0) fires: fetchEvents() of the closure.
TimeoutFired ==
  /\ timeouts # <<>>
  /\ fetches' = IssueFetch(fetches, Head(timeouts))
  /\ honored' = Pending
  /\ timeouts' = Tail(timeouts)
  /\ loading' = TRUE
  /\ sent' = <<>>
  /\ lastOp' = <<"timeout", 0>>
  /\ UNCHANGED commandVars
  /\ UNCHANGED <<formVars, submitted>>
  /\ UNCHANGED script
  /\ UNCHANGED eventList
  /\ received' = NoInput
  /\ UNCHANGED editVars
  /\ UNCHANGED <<connVars, mountSel, selectedDate, selectedDateRange, events,
                 syncing, error, syncStatus, syncRequests>>

\* Mutation of handleSync: the button is not disabled while syncing.
handleSyncWhileSyncing ==
  /\ mounted
  /\ syncRequests < MaxSyncs
  /\ syncing' = TRUE
  /\ error' = NoError
  /\ syncRequests' = syncRequests + 1
  /\ sent' = <<>>
  /\ lastOp' = <<"handleSync", 0>>
  /\ UNCHANGED commandVars
  /\ UNCHANGED <<formVars, submitted>>
  /\ UNCHANGED script
  /\ UNCHANGED eventList
  /\ received' = NoInput
  /\ UNCHANGED <<honored, editVars>>
  /\ UNCHANGED <<connVars, mountSel, selectedDate, selectedDateRange, events,
                 loading, syncStatus, fetches, timeouts>>

\* handleSync up to its await (page.tsx 246-251); the button is disabled
\* while syncing (388-397).
handleSync ==
  /\ mounted
  /\ ~syncing
  /\ syncRequests < MaxSyncs
  /\ syncing' = TRUE
  /\ error' = NoError
  /\ syncRequests' = syncRequests + 1
  /\ sent' = <<>>
  /\ lastOp' = <<"handleSync", 0>>
  /\ UNCHANGED commandVars
  /\ UNCHANGED <<formVars, submitted>>
  /\ UNCHANGED script
  /\ UNCHANGED eventList
  /\ received' = NoInput
  /\ UNCHANGED editVars
  /\ UNCHANGED honored
  /\ UNCHANGED <<connVars, mountSel, selectedDate, selectedDateRange, events,
                 loading, syncStatus, fetches, timeouts>>

\* api.syncCalendar() returned data: handleSync resumes (page.tsx 252-259).
SyncResponse(data) ==
  /\ syncRequests > 0
  /\ syncRequests' = syncRequests - 1
  /\ syncStatus' = ToSyncStatus(data)
  /\ sent' = <<>>
  /\ lastOp' = <<"syncResponse", 0>>
  /\ UNCHANGED commandVars
  /\ UNCHANGED <<formVars, submitted>>
  /\ UNCHANGED script
  /\ UNCHANGED eventList
  /\ received' = Input("syncResponse", "", "data", data)
  /\ UNCHANGED editVars
  /\ UNCHANGED honored
  /\ UNCHANGED <<connVars, mountSel, selectedDate, selectedDateRange, events,
                 loading, syncing, error, fetches, timeouts>>

\* Mutation of SyncFailure: the catch leaves the syncing flag set.
SyncFailureStillSyncing ==
  /\ syncRequests > 0
  /\ syncRequests' = syncRequests - 1
  /\ error' = "Sync failed"
  /\ syncStatus' = FailedSyncStatus
  /\ sent' = <<>>
  /\ lastOp' = <<"syncFailure", 0>>
  /\ UNCHANGED commandVars
  /\ UNCHANGED <<formVars, submitted>>
  /\ UNCHANGED script
  /\ UNCHANGED eventList
  /\ received' = Input("syncFailure", "", "", EmptyPayload)
  /\ UNCHANGED <<honored, editVars>>
  /\ UNCHANGED <<connVars, mountSel, selectedDate, selectedDateRange, events,
                 loading, syncing, fetches, timeouts>>

\* api.syncCalendar() threw: the catch of handleSync (page.tsx 260-272).
SyncFailure ==
  /\ syncRequests > 0
  /\ syncRequests' = syncRequests - 1
  /\ error' = "Sync failed"
  /\ syncStatus' = FailedSyncStatus
  /\ syncing' = FALSE
  /\ sent' = <<>>
  /\ lastOp' = <<"syncFailure", 0>>
  /\ UNCHANGED commandVars
  /\ UNCHANGED <<formVars, submitted>>
  /\ UNCHANGED script
  /\ UNCHANGED eventList
  /\ received' = Input("syncFailure", "", "", EmptyPayload)
  /\ UNCHANGED editVars
  /\ UNCHANGED honored
  /\ UNCHANGED <<connVars, mountSel, selectedDate, selectedDateRange, events,
                 loading, fetches, timeouts>>

\* The "New Event" button (page.tsx 382): setEventFormOpen(true); EventForm's
\* effect on open (run_web.sh 208-219) resets the form.
openEventForm ==
  /\ mounted
  /\ ~eventFormOpen
  /\ eventFormOpen' = TRUE
  /\ title' = <<>>
  /\ startDate' = InitialDate
  /\ endDate' = InitialDate + 1
  /\ errors' = {}
  /\ sent' = <<>>
  /\ lastOp' = <<"openEventForm", 0>>
  /\ UNCHANGED commandVars
  /\ UNCHANGED submitted
  /\ UNCHANGED script
  /\ UNCHANGED eventList
  /\ received' = NoInput
  /\ UNCHANGED honored
  /\ UNCHANGED <<connVars, mountSel, dataVars, deleted, mutations>>

\* EventForm's onClose (page.tsx 479): setEventFormOpen(false).
closeEventForm ==
  /\ eventFormOpen
  /\ eventFormOpen' = FALSE
  /\ sent' = <<>>
  /\ lastOp' = <<"closeEventForm", 0>>
  /\ UNCHANGED commandVars
  /\ UNCHANGED <<formVars, submitted>>
  /\ UNCHANGED script
  /\ UNCHANGED eventList
  /\ received' = NoInput
  /\ UNCHANGED honored
  /\ UNCHANGED <<connVars, mountSel, dataVars, deleted, mutations>>

\* What the closure of a create or delete handler holds while it awaits the
\* api: the events of the render it was called in, and that render's
\* fetchEvents.
Mutation(op, id) ==
  [op |-> op, id |-> id, events |-> events, deleted |-> deleted,
   sel |-> Selection]

\* The outcomes of api.createEvent / api.deleteEvent: a response with
\* success true, one with success false, or an exception.
Outcomes == {"success", "failure", "throws"}

\* handleDeleteEvent(eventId) up to its await (page.tsx 302-305), for an
\* event on display.
handleDeleteEvent(eventId) ==
  /\ mounted
  /\ events # EmptyEvents
  /\ eventId \notin deleted
  /\ Len(mutations) < MaxEdits
  /\ loading' = TRUE
  /\ mutations' = Append(mutations, Mutation("delete", eventId))
  /\ sent' = <<>>
  /\ lastOp' = <<"handleDeleteEvent", 0>>
  /\ UNCHANGED commandVars
  /\ UNCHANGED <<formVars, submitted>>
  /\ UNCHANGED script
  /\ UNCHANGED eventList
  /\ received' = NoInput
  /\ UNCHANGED honored
  /\ UNCHANGED <<connVars, mountSel, selectedDate, selectedDateRange, events,
                 syncing, error, syncStatus, fetches, timeouts, syncRequests,
                 eventFormOpen, deleted>>

\* api.deleteEvent settled: handleDeleteEvent resumes (page.tsx 306-318).
DeleteResponse(i, outcome) ==
  /\ i \in 1..Len(mutations)
  /\ mutations[i].op = "delete"
  /\ IF outcome = "success"
     THEN /\ events' = mutations[i].events
          /\ deleted' = mutations[i].deleted \cup {mutations[i].id}
          /\ error' = NoError
     ELSE /\ error' = IF outcome = "failure" THEN "Failed to delete event"
                      ELSE "Error deleting event"
          /\ UNCHANGED <<events, deleted>>
  /\ loading' = FALSE
  /\ mutations' = RemoveAt(mutations, i)
  /\ sent' = <<>>
  /\ lastOp' = <<"deleteResponse", 0>>
  /\ UNCHANGED commandVars
  /\ UNCHANGED <<formVars, submitted>>
  /\ UNCHANGED script
  /\ UNCHANGED eventList
  /\ received' = Input("deleteResponse", outcome, "", EmptyPayload)
  /\ UNCHANGED honored
  /\ UNCHANGED <<connVars, mountSel, selectedDate, selectedDateRange, syncing,
                 syncStatus, fetches, timeouts, syncRequests, eventFormOpen>>

\* EventForm's onSubmit: handleCreateEvent(eventData) up to its await
\* (page.tsx 321-324).
handleCreateEvent ==
  /\ mounted
  /\ eventFormOpen
  /\ Len(mutations) < MaxEdits
  /\ loading' = TRUE
  /\ mutations' = Append(mutations, Mutation("create", 0))
  /\ sent' = <<>>
  /\ lastOp' = <<"handleCreateEvent", 0>>
  /\ UNCHANGED commandVars
  /\ UNCHANGED <<formVars, submitted>>
  /\ UNCHANGED script
  /\ UNCHANGED eventList
  /\ received' = NoInput
  /\ UNCHANGED honored
  /\ UNCHANGED <<connVars, mountSel, selectedDate, selectedDateRange, events,
                 syncing, error, syncStatus, fetches, timeouts, syncRequests,
                 eventFormOpen, deleted>>

\* Mutation of CreateResponse: the form is closed whatever the outcome.
CreateResponseClosing(i, outcome) ==
  /\ i \in 1..Len(mutations)
  /\ mutations[i].op = "create"
  /\ eventFormOpen' = FALSE
  /\ IF outcome = "success"
     THEN /\ Len(fetches) < MaxInFlight
          /\ fetches' = IssueFetch(fetches, mutations[i].sel)
          /\ honored' = Pending
          /\ error' = NoError
     ELSE /\ error' = "Failed to create event"
          /\ UNCHANGED <<fetches, honored>>
  /\ loading' = FALSE
  /\ mutations' = RemoveAt(mutations, i)
  /\ sent' = <<>>
  /\ lastOp' = <<"createResponse", 0>>
  /\ UNCHANGED commandVars
  /\ UNCHANGED <<formVars, submitted>>
  /\ UNCHANGED script
  /\ UNCHANGED eventList
  /\ received' = Input("createResponse", outcome, "", EmptyPayload)
  /\ UNCHANGED <<connVars, mountSel, selectedDate, selectedDateRange, events,
                 syncing, syncStatus, timeouts, syncRequests, deleted>>

\* api.createEvent settled: handleCreateEvent resumes (page.tsx 325-338). On
\* success fetchEvents() runs up to its await, then setError(null) and the
\* finally's setLoading(false).
CreateResponse(i, outcome) ==
  /\ i \in 1..Len(mutations)
  /\ mutations[i].op = "create"
  /\ IF outcome = "success"
     THEN /\ Len(fetches) < MaxInFlight
          /\ eventFormOpen' = FALSE
          /\ fetches' = IssueFetch(fetches, mutations[i].sel)
          /\ honored' = Pending
          /\ error' = NoError
     ELSE /\ error' = IF outcome = "failure" THEN "Failed to create event"
                      ELSE "Error creating event"
          /\ UNCHANGED <<eventFormOpen, fetches, honored>>
  /\ loading' = FALSE
  /\ mutations' = RemoveAt(mutations, i)
  /\ sent' = <<>>
  /\ lastOp' = <<"createResponse", 0>>
  /\ UNCHANGED commandVars
  /\ UNCHANGED <<formVars, submitted>>
  /\ UNCHANGED script
  /\ UNCHANGED eventList
  /\ received' = Input("createResponse", outcome, "", EmptyPayload)
  /\ UNCHANGED <<connVars, mountSel, selectedDate, selectedDateRange, events,
                 syncing, syncStatus, timeouts, syncRequests, deleted>>

\* The characters a command is typed from, and the texts of the command input.
Chars == {" ", "a"}
Commands == UNION {[1..n -> Chars] : n \in 0..MaxCommandLen}

\* Mutation of Trim: white space is kept.
TrimNothing(c) == c

\* String.prototype.trim(): leading and trailing white space removed.
RECURSIVE TrimStart(_)
TrimStart(c) == IF c # <<>> /\ Head(c) = " " THEN TrimStart(Tail(c)) ELSE c
RECURSIVE TrimEnd(_)
TrimEnd(c) ==
  IF c # <<>> /\ c[Len(c)] = " " THEN TrimEnd(SubSeq(c, 1, Len(c) - 1)) ELSE c
Trim(c) == TrimEnd(TrimStart(c))

\* The command input's onChange (page.tsx 456): setCommand(e.target.value);
\* the input is disabled while loading (458).
setCommand(text) ==
  /\ mounted
  /\ ~loading
  /\ text # command
  /\ command' = text
  /\ sent' = <<>>
  /\ lastOp' = <<"setCommand", 0>>
  /\ UNCHANGED <<formVars, submitted>>
  /\ UNCHANGED script
  /\ UNCHANGED eventList
  /\ received' = NoInput
  /\ UNCHANGED honored
  /\ UNCHANGED <<connVars, mountSel, dataVars, editVars, commandRequests>>

\* The values api.sendCommand may settle with: a response carrying events, a
\* response without, or an exception.
CommandOutcomes == {"events", "noEvents", "throws"}

\* The Event set a command's response carries.
CommandEvents == <<"sendCommand", 0>>

\* handleCommand up to its await (page.tsx 275-282), called by Enter in the
\* input or by the send button, both disabled while loading (457-467).
handleCommand ==
  /\ mounted
  /\ ~loading
  /\ IF Trim(command) = <<>>
     THEN UNCHANGED <<loading, error, commandRequests>>
     ELSE /\ commandRequests < MaxCommands
          /\ loading' = TRUE
          /\ error' = NoError
          /\ commandRequests' = commandRequests + 1
  /\ sent' = <<>>
  /\ lastOp' = <<"handleCommand", 0>>
  /\ UNCHANGED <<formVars, submitted>>
  /\ UNCHANGED script
  /\ UNCHANGED eventList
  /\ received' = NoInput
  /\ UNCHANGED honored
  /\ UNCHANGED <<connVars, mountSel, selectedDate, selectedDateRange, events,
                 syncing, syncStatus, fetches, timeouts, syncRequests,
                 editVars, command>>

\* api.sendCommand settled: handleCommand resumes (page.tsx 283-293).
CommandResponse(outcome) ==
  /\ commandRequests > 0
  /\ commandRequests' = commandRequests - 1
  /\ IF outcome = "throws"
     THEN /\ error' = "Command failed"
          /\ UNCHANGED <<events, deleted, command>>
     ELSE /\ IF outcome = "events"
             THEN events' = CommandEvents /\ deleted' = {}
             ELSE UNCHANGED <<events, deleted>>
          /\ command' = <<>>
          /\ error' = NoError
  /\ loading' = FALSE
  /\ sent' = <<>>
  /\ lastOp' = <<"commandResponse", 0>>
  /\ UNCHANGED <<formVars, submitted>>
  /\ UNCHANGED script
  /\ UNCHANGED eventList
  /\ received' = Input("commandResponse", outcome, "", EmptyPayload)
  /\ UNCHANGED honored
  /\ UNCHANGED <<connVars, mountSel, selectedDate, selectedDateRange, syncing,
                 syncStatus, fetches, timeouts, syncRequests, eventFormOpen,
                 mutations>>

\* The title field's onChange (run_web.sh 288).
setTitle(text) ==
  /\ eventFormOpen
  /\ text # title
  /\ title' = text
  /\ sent' = <<>>
  /\ lastOp' = <<"setTitle", 0>>
  /\ UNCHANGED script
  /\ UNCHANGED eventList
  /\ received' = NoInput
  /\ UNCHANGED <<honored, submitted>>
  /\ UNCHANGED <<connVars, mountSel, dataVars, editVars, commandVars,
                 startDate, endDate, errors>>

\* The start picker's onChange (run_web.sh 309).
setStartDate(newValue) ==
  /\ eventFormOpen
  /\ newValue # startDate
  /\ startDate' = newValue
  /\ sent' = <<>>
  /\ lastOp' = <<"setStartDate", 0>>
  /\ UNCHANGED script
  /\ UNCHANGED eventList
  /\ received' = NoInput
  /\ UNCHANGED <<honored, submitted>>
  /\ UNCHANGED <<connVars, mountSel, dataVars, editVars, commandVars,
                 title, endDate, errors>>

\* The end picker's onChange (run_web.sh 325).
setEndDate(newValue) ==
  /\ eventFormOpen
  /\ newValue # endDate
  /\ endDate' = newValue
  /\ sent' = <<>>
  /\ lastOp' = <<"setEndDate", 0>>
  /\ UNCHANGED script
  /\ UNCHANGED eventList
  /\ received' = NoInput
  /\ UNCHANGED <<honored, submitted>>
  /\ UNCHANGED <<connVars, mountSel, dataVars, editVars, commandVars,
                 title, startDate, errors>>

\* `!d` for a Date | null: only null is falsy.
Falsy(d) == d = NullDate

\* `a < b` on two Dates: the time values compared, false when either is NaN.
DateLess(a, b) == a # InvalidDate /\ b # InvalidDate /\ a < b

\* validate() (run_web.sh 221-240): the messages it hands to setErrors.
validate(t, start, end) ==
  (IF Trim(t) = <<>> THEN {<<"title", "Title is required">>} ELSE {})
  \cup (IF Falsy(start) THEN {<<"startDate", "Start date is required">>} ELSE {})
  \cup (IF Falsy(end) THEN {<<"endDate", "End date is required">>}
        ELSE IF ~Falsy(start) /\ ~Falsy(end) /\ DateLess(end, start)
             THEN {<<"endDate", "End date must be after start date">>}
             ELSE {})

\* Date.prototype.toISOString() throws a RangeError on a NaN time value.
ToISOStringThrows(d) == d = InvalidDate

\* handleSubmit (run_web.sh 242-256), the "Create Event" button: validate(),
\* then eventData is built and onSubmit(eventData), page.tsx's
\* handleCreateEvent, runs up to its await.
handleSubmit ==
  /\ mounted
  /\ eventFormOpen
  /\ errors' = validate(title, startDate, endDate)
  /\ IF /\ validate(title, startDate, endDate) = {}
        /\ ~ToISOStringThrows(startDate)
        /\ ~ToISOStringThrows(endDate)
     THEN /\ Len(mutations) < MaxEdits
          /\ submitted' = <<title, startDate, endDate>>
          /\ loading' = TRUE
          /\ mutations' = Append(mutations, Mutation("create", 0))
     ELSE /\ submitted' = NotSubmitted
          /\ UNCHANGED <<loading, mutations>>
  /\ sent' = <<>>
  /\ lastOp' = <<"handleSubmit", 0>>
  /\ UNCHANGED script
  /\ UNCHANGED eventList
  /\ received' = NoInput
  /\ UNCHANGED honored
  /\ UNCHANGED <<connVars, mountSel, selectedDate, selectedDateRange, events,
                 syncing, error, syncStatus, fetches, timeouts, syncRequests,
                 eventFormOpen, deleted, commandVars, title, startDate, endDate>>

\* ------------------------------------------------------------ run_web.sh
\* The body of cleanup() before its exit 0 (run_web.sh 26-46): kill -9 of the
\* two pids when set, of the holders of ports 8000 and 3000, pkill of uvicorn
\* and next.
KillAll(sc) ==
  [sc EXCEPT !.procs = {}]

\* exit n with `trap cleanup EXIT` set (run_web.sh 51): the status is n and
\* the EXIT trap is still to run.
Exit(n, sc) ==
  [sc EXCEPT !.pc = "trap", !.status = n]

\* A call of cleanup (run_web.sh 25-48): its body, then its exit 0.
CleanupCall(sc) == Exit(0, KillAll(sc))

\* The EXIT trap runs cleanup: its body, then its exit 0 ends the script and
\* is the script's exit status, whatever status the exit that fired the trap
\* had given.
ExitTrap(sc) ==
  [KillAll(sc) EXCEPT !.pc = "exited", !.status = 0]

\* The script is started (run_web.sh 1-53: set -e, the functions, the trap) on
\* a machine where the processes ps run and the venv directory exists or not.
Launch(ps, venvExists) ==
  /\ script.pc = "notLaunched"
  /\ script' = [script EXCEPT !.pc = "venv", !.procs = ps, !.venv = venvExists]
  /\ sent' = <<>>
  /\ lastOp' = <<"launch", 0>>
  /\ UNCHANGED eventList
  /\ received' = NoInput
  /\ UNCHANGED <<honored, submitted>>
  /\ UNCHANGED <<connVars, mountSel, dataVars, editVars, commandVars, formVars>>

\* The command at the script's position runs. ok: the command succeeds (the
\* port is free, curl gets its answer); alive: kill -0 finds the server.
\* Under set -e a failing simple command exits the script.
NextCommand(ok, alive, sc) ==
  CASE sc.pc = "venv" ->       \* 56-59
         IF sc.venv THEN [sc EXCEPT !.pc = "pip"]
         ELSE IF ok THEN [sc EXCEPT !.pc = "pip", !.venv = TRUE]
         ELSE Exit(1, sc)
    [] sc.pc = "pip" ->        \* 62-66
         IF ok THEN [sc EXCEPT !.pc = "cleanup", !.setUp = TRUE] ELSE Exit(1, sc)
    [] sc.pc = "cleanup" ->    \* 69
         CleanupCall(sc)
    [] sc.pc = "ports" ->      \* 73-84
         IF ok THEN [sc EXCEPT !.pc = "backend", !.i = 0]
         ELSE IF sc.i + 1 >= MaxPortChecks THEN Exit(1, sc)
         ELSE [sc EXCEPT !.i = @ + 1]
    [] sc.pc = "backend" ->    \* 91-96
         [sc EXCEPT !.pc = "backendWait", !.BACKEND_PID = BackendPid, !.i = 1,
                    !.procs = @ \cup {"uvicorn"}]
    [] sc.pc = "backendWait" ->  \* 100-121
         IF ok THEN [sc EXCEPT !.pc = "frontend"]
         ELSE IF ~alive THEN CleanupCall(sc)
         ELSE IF sc.i = MaxPolls THEN CleanupCall(sc)
         ELSE [sc EXCEPT !.i = @ + 1]
    [] sc.pc = "frontend" ->   \* 124-138
         [sc EXCEPT !.pc = "frontendWait", !.FRONTEND_PID = FrontendPid, !.i = 1,
                    !.procs = @ \cup {"next"}]
    [] sc.pc = "frontendWait" -> \* 142-162
         IF ok THEN [sc EXCEPT !.pc = "wait"]
         ELSE IF ~alive THEN CleanupCall(sc)
         ELSE IF sc.i = MaxPolls THEN CleanupCall(sc)
         ELSE [sc EXCEPT !.i = @ + 1]
    [] sc.pc = "wait" ->       \* 170: a server has exited
         Exit(0, sc)
    [] sc.pc = "trap" ->       \* 51
         ExitTrap(sc)
    [] OTHER -> sc

ScriptStep(ok, alive) ==
  /\ script.pc \notin {"notLaunched", "exited"}
  /\ script' = NextCommand(ok, alive, script)
  /\ sent' = <<>>
  /\ lastOp' = <<"script", 0>>
  /\ UNCHANGED eventList
  /\ received' = NoInput
  /\ UNCHANGED <<honored, submitted>>
  /\ UNCHANGED <<connVars, mountSel, dataVars, editVars, commandVars, formVars>>

\* INT or TERM is delivered (Ctrl+C): `trap cleanup INT TERM EXIT`.
Signal ==
  /\ script.pc \notin {"notLaunched", "exited"}
  /\ script' = [CleanupCall(script) EXCEPT !.signalled = TRUE]
  /\ sent' = <<>>
  /\ lastOp' = <<"signal", 0>>
  /\ UNCHANGED eventList
  /\ received' = NoInput
  /\ UNCHANGED <<honored, submitted>>
  /\ UNCHANGED <<connVars, mountSel, dataVars, editVars, commandVars, formVars>>

\* ------------------------------------------------------------ EventList
\* Time is counted in half days from the first day of a week that is also
\* the first day of a month and of a year; the calendar has weeks of 7 days,
\* months of 30 days and years of 12 months.
TicksPerDay == 2
DaysPerWeek == 7
DaysPerMonth == 30
MonthsPerYear == 12

\* The start_time values of the events and the selected dates tried: around
\* the end of the first week and of the first month.
EventTimes == {12, 13, 14, 27, 59, 60}
SelectedDates == {13, 14, 59, 60}
DateRanges == {"day", "week", "month", "year"}

DayOf(t) == t \div TicksPerDay
getFullYear(t) == DayOf(t) \div (DaysPerMonth * MonthsPerYear)
getMonth(t) == (DayOf(t) \div DaysPerMonth) % MonthsPerYear
getDate(t) == (DayOf(t) % DaysPerMonth) + 1

\* date-fns: the first and the last instant of the week and of the month.
startOfWeek(t) == (DayOf(t) \div DaysPerWeek) * DaysPerWeek * TicksPerDay
endOfWeek(t) == startOfWeek(t) + DaysPerWeek * TicksPerDay - 1
startOfMonth(t) == (DayOf(t) \div DaysPerMonth) * DaysPerMonth * TicksPerDay
endOfMonth(t) == startOfMonth(t) + DaysPerMonth * TicksPerDay - 1
isWithinInterval(t, start, end) == t >= start /\ t <= end

\* The callback of events.filter (EventList.tsx 16-35).
Shown(event, date, dateRange) ==
  LET eventDate == event.start_time
  IN IF dateRange = "day"
     THEN /\ getFullYear(eventDate) = getFullYear(date)
          /\ getMonth(eventDate) = getMonth(date)
          /\ getDate(eventDate) = getDate(date)
     ELSE IF dateRange = "week"
     THEN isWithinInterval(eventDate, startOfWeek(date), endOfWeek(date))
     ELSE IF dateRange = "month"
     THEN isWithinInterval(eventDate, startOfMonth(date), endOfMonth(date))
     ELSE FALSE

\* Array.prototype.filter.
RECURSIVE Filter(_, _, _)
Filter(evs, date, dateRange) ==
  IF evs = <<>> THEN <<>>
  ELSE (IF Shown(Head(evs), date, dateRange) THEN <<Head(evs)>> ELSE <<>>)
       \o Filter(Tail(evs), date, dateRange)

\* Mutation of compareStart: the later event first.
compareStartDescending(a, b) == b.start_time - a.start_time

\* The comparator handed to sort (EventList.tsx 36).
compareStart(a, b) == a.start_time - b.start_time

\* Array.prototype.sort, which is stable: e goes after every element that
\* does not compare greater than it.
RECURSIVE InsertSorted(_, _)
InsertSorted(e, sorted) ==
  IF sorted = <<>> THEN <<e>>
  ELSE IF compareStart(Head(sorted), e) <= 0
       THEN <<Head(sorted)>> \o InsertSorted(e, Tail(sorted))
       ELSE <<e>> \o sorted
RECURSIVE Sort(_)
Sort(evs) ==
  IF evs = <<>> THEN <<>>
  ELSE InsertSorted(evs[Len(evs)], Sort(SubSeq(evs, 1, Len(evs) - 1)))

filteredEvents(evs, date, dateRange) == Sort(Filter(evs, date, dateRange))

\* The events prop: events with distinct ids and the given start times.
EventsWith(starts) ==
  [i \in 1..Len(starts) |-> [id |-> i, start_time |-> starts[i]]]
StartLists == UNION {[1..n -> EventTimes] : n \in 0..MaxEvents}

\* EventList renders with the given props. filteredEvents depends on the
\* props only, so each list of props is rendered once, from the initial state.
Render(starts, date, dateRange) ==
  /\ lastOp[1] = "init"
  /\ eventList' = [events |-> EventsWith(starts), date |-> date,
                   dateRange |-> dateRange,
                   filteredEvents |-> filteredEvents(EventsWith(starts), date, dateRange)]
  /\ sent' = <<>>
  /\ lastOp' = <<"render", 0>>
  /\ received' = NoInput
  /\ UNCHANGED <<honored, submitted, script>>
  /\ UNCHANGED <<connVars, mountSel, dataVars, editVars, commandVars, formVars>>

\* ------------------------------------------------------------ specifications
\* The frames that carry no sync payload, and a sync_complete without one.
PlainFrames == {f \in Frames : f.data = EmptyPayload}
\* The frames that make ws.onmessage call fetchEvents, without a payload.
RefreshFrames == {f \in PlainFrames : Dispatch(f) = "sync_complete" /\ f.key = "data"}

EffectNext ==
  \/ \E ctorFails \in BOOLEAN : Mount(ctorFails)
  \/ Cleanup

SocketNext ==
  \/ \E t \in timers, ctorFails \in BOOLEAN : TimerFired(t, ctorFails)
  \/ \E s \in SocketIds, sendFails \in BOOLEAN : WsOnOpen(s, sendFails)
  \/ \E s \in SocketIds, failed \in BOOLEAN : WsOnClose(s, failed)

FetchResolved == \E i \in 1..Len(fetches), ok \in BOOLEAN : FetchResolve(i, ok)

SelectionNext ==
  \/ \E d \in Dates : setSelectedDate(d)
  \/ \E range \in Ranges : handleDateRangeChange(range)
  \/ TimeoutFired

EditNext ==
  \/ openEventForm
  \/ closeEventForm
  \/ \E eventId \in EventIds : handleDeleteEvent(eventId)
  \/ \E i \in 1..Len(mutations), outcome \in Outcomes : DeleteResponse(i, outcome)
  \/ handleCreateEvent
  \/ \E i \in 1..Len(mutations), outcome \in Outcomes : CreateResponse(i, outcome)

ListNext ==
  \E starts \in StartLists, date \in SelectedDates, dateRange \in DateRanges :
    Render(starts, date, dateRange)

ScriptNext ==
  \/ \E ps \in SUBSET Strays, venvExists \in BOOLEAN : Launch(ps, venvExists)
  \/ \E ok \in BOOLEAN, alive \in BOOLEAN : ScriptStep(ok, alive)
  \/ Signal

FormNext ==
  \/ \E text \in Commands : setTitle(text)
  \/ \E newValue \in FormDates : setStartDate(newValue)
  \/ \E newValue \in FormDates : setEndDate(newValue)
  \/ handleSubmit

CommandNext ==
  \/ \E text \in Commands : setCommand(text)
  \/ handleCommand
  \/ \E outcome \in CommandOutcomes : CommandResponse(outcome)

SyncNext ==
  \/ handleSync
  \/ \E data \in Payloads : SyncResponse(data)
  \/ SyncFailure

\* Every handler, every input.
Next ==
  \/ EffectNext
  \/ SocketNext
  \/ \E g \in Gens : HeartbeatTick(g)
  \/ \E s \in SocketIds, frame \in Frames : WsOnMessage(s, frame)
  \/ FetchResolved
  \/ SelectionNext
  \/ SyncNext
  \/ EditNext
  \/ CommandNext
  \/ FormNext
  \/ ScriptNext
  \/ ListNext

Spec == Init /\ [][Next]_vars

\* The connection manager and the heartbeat: the effect may be cleaned up and
\* run again, sockets open, fail and close, timers fire, frames arrive; the
\* user does nothing.
ConnNext ==
  \/ EffectNext
  \/ SocketNext
  \/ \E g \in Gens : HeartbeatTick(g)
  \/ \E s \in SocketIds, frame \in PlainFrames : WsOnMessage(s, frame)
  \/ FetchResolved

SpecConn == Init /\ [][ConnNext]_vars

\* The event fetch coordinator: one mount whose socket opens and stays open,
\* sync_complete frames, the user changing the date and the range.
FetchNext ==
  \/ \E ctorFails \in BOOLEAN : Mount(ctorFails)
  \/ \E s \in SocketIds, sendFails \in BOOLEAN : WsOnOpen(s, sendFails)
  \/ \E s \in SocketIds, frame \in RefreshFrames : WsOnMessage(s, frame)
  \/ FetchResolved
  \/ SelectionNext

SpecFetch == Init /\ [][FetchNext]_vars

\* The sync status reducer: one mount whose connection may drop and be
\* retried, every frame and payload, the user's syncs and their responses.
SyncStatusNext ==
  \/ \E ctorFails \in BOOLEAN : Mount(ctorFails)
  \/ SocketNext
  \/ \E g \in Gens : HeartbeatTick(g)
  \/ \E s \in SocketIds, frame \in Frames : WsOnMessage(s, frame)
  \/ FetchResolved
  \/ SyncNext

SpecSync == Init /\ [][SyncStatusNext]_vars

\* Creating and deleting events: one mount and the fetches it issues, the
\* event form, the create and delete requests and their outcomes.
EditingNext ==
  \/ \E ctorFails \in BOOLEAN : Mount(ctorFails)
  \/ FetchResolved
  \/ EditNext

SpecEdit == Init /\ [][EditingNext]_vars

\* The command line: one mount and the fetches it issues, the user changing
\* the date, typing and submitting commands, and their outcomes.
CommandingNext ==
  \/ \E ctorFails \in BOOLEAN : Mount(ctorFails)
  \/ FetchResolved
  \/ \E d \in Dates : setSelectedDate(d)
  \/ CommandNext

SpecCommand == Init /\ [][CommandingNext]_vars

\* The event form: one mount, the form opened and closed, its fields edited,
\* the form submitted, and the create requests it starts answered.
FormingNext ==
  \/ \E ctorFails \in BOOLEAN : Mount(ctorFails)
  \/ openEventForm
  \/ closeEventForm
  \/ FormNext
  \/ \E i \in 1..Len(mutations), outcome \in Outcomes : CreateResponse(i, outcome)

SpecForm == Init /\ [][FormingNext]_vars

\* run_web.sh alone, on every machine state it may be started in.
SpecScript == Init /\ [][ScriptNext]_vars

\* EventList alone, rendered with every list of events, date and range.
SpecList == Init /\ [][ListNext]_vars

\* ------------------------------------------------------------ claims
TimersOf(g) == {t \in timers : t.gen = g}
SocketsOf(g) == {s \in SocketIds : sockets[s].readyState # CLOSED /\ sockets[s].gen = g}
Live == {s \in SocketIds : sockets[s].readyState \in {CONNECTING, OPEN}}
\* The effect runs whose cleanup has run.
CleanedUp == {g \in Gens : g < mountCount \/ (g = mountCount /\ ~mounted)}

\* C1: whenever every issued sync request has received its response, the
\* syncing flag is false.
C1_SyncingClearedOnceAnswered == (syncRequests = 0) => ~syncing

\* C2: when no fetch is in flight and both the fetch issued last and the fetch
\* that resolved last succeeded, the displayed Event set is the result of the
\* fetch issued last: a fetch issued earlier for another selection that resolves
\* later does not replace it.
C2_IssueOrderHonored ==
  (fetches = <<>> /\ honored # EmptyEvents /\ events # EmptyEvents)
    => events = honored

\* C3: in a quiescent state (no fetch in flight, no fetch timeout pending) whose
\* last fetch succeeded, the displayed Event set is what the api returns for
\* the currently selected (date, range) pair.
C3_DisplayedMatchesSelection ==
  (fetches = <<>> /\ timeouts = <<>> /\ events # EmptyEvents)
    => events = ApiResult(Selection)

\* A step in which ws.onclose of a socket of run g ran.
ClosedFor(g) ==
  /\ lastOp' = <<"onclose", g>>
  /\ \E s \in SocketIds : /\ sockets[s].gen = g
                         /\ sockets[s].readyState # CLOSED
                         /\ sockets'[s].readyState = CLOSED
\* A step in which connectWebSocket of run g ran and new WebSocket(url) threw.
OpenFailedFor(g) ==
  /\ lastOp' \in {<<"mount", g>>, <<"timer", g>>}
  /\ ~isConnecting[g]
  /\ reconnectAttempts[g] < 5
  /\ ~isConnecting'[g]
\* After the step, reconnectTimeout of run g is a pending timer of delay d.
ScheduledWithDelay(g, d) ==
  \E t \in timers' : t.gen = g /\ t.handle /\ t.delay = d

C5_CounterSteps ==
  [][\A g \in Gens :
       /\ reconnectAttempts[g] \in 0..5
       /\ reconnectAttempts'[g] \in 0..5
       /\ ((ClosedFor(g) /\ reconnectAttempts[g] < 5) \/ OpenFailedFor(g))
            => reconnectAttempts'[g] = reconnectAttempts[g] + 1
       /\ reconnectAttempts'[g] # reconnectAttempts[g]
            => \/ /\ reconnectAttempts'[g] = reconnectAttempts[g] + 1
                  /\ reconnectAttempts[g] < 5
                  /\ ClosedFor(g) \/ OpenFailedFor(g)
               \/ /\ reconnectAttempts'[g] = 0
                  /\ lastOp' = <<"onopen", g>>]_vars

C5_Witness ==
  \E g \in Gens : /\ reconnectAttempts[g] = 2
                  /\ lastOp[1] \in {"onmessage", "heartbeat", "fetchResolved"}

\* C6: once the counter of an effect run is 5 it stays 5, the run has no socket
\* connecting or open, schedules no further reconnect timer and creates no
\* socket.
C6_ExhaustedStaysDown ==
  [][\A g \in Gens :
       reconnectAttempts[g] = 5
         => /\ reconnectAttempts'[g] = 5
            /\ Cardinality({t \in timers' : t.gen = g}) <= Cardinality(TimersOf(g))
            /\ \A s \in SocketIds :
                 sockets'[s].gen = g => sockets'[s].readyState \notin {CONNECTING, OPEN}]_vars

C6_Witness ==
  \E g \in Gens : reconnectAttempts[g] = 5 /\ TimersOf(g) = {} /\ lastOp = <<"timer", g>>

\* C7: right after ws.onopen has run, the counter of its effect run is 0, its
\* isConnecting flag is false, and no reconnect timer is pending.
C7_OpenLeavesNoTimer ==
  \A g \in Gens :
    lastOp = <<"onopen", g>>
      => reconnectAttempts[g] = 0 /\ ~isConnecting[g] /\ timers = {}

\* C8: once the cleanup of an effect run has run, that run has no pending
\* reconnect timer, its heartbeat is stopped, and it has no socket connecting
\* or open.
C8_NothingAfterCleanup ==
  \A g \in CleanedUp :
    /\ TimersOf(g) = {}
    /\ g \notin heartbeatInterval
    /\ \A s \in SocketsOf(g) : sockets[s].readyState = CLOSING

\* C9: at most one WebSocket is connecting or open.
C9_OneLiveSocket == Cardinality(Live) <= 1

\* C10: every effect run has at most one reconnect timer pending.
C10_OnePendingTimer == \A g \in Gens : Cardinality(TimersOf(g)) <= 1

C10_Witness ==
  \E g \in Gens : Cardinality(TimersOf(g)) = 1 /\ reconnectAttempts[g] >= 2
                  /\ lastOp = <<"onclose", g>>

\* C11: a call of connectWebSocket made while isConnecting is set or while the
\* counter is 5 or more changes nothing: in every state the call returns the
\* connection state it was given, and the step of a reconnect timer that fires
\* in such a state removes that timer and leaves the sockets, wsRef, the
\* counters, the isConnecting flags and the other timers as they were.
C11_SkippedConnectIsNoOp ==
  [][/\ \A g \in Gens, ctorFails \in BOOLEAN :
          (isConnecting[g] \/ reconnectAttempts[g] >= 5)
            => connectWebSocket(g, ctorFails, Conn) = Conn
     /\ \A g \in Gens :
          (lastOp' = <<"timer", g>> /\ (isConnecting[g] \/ reconnectAttempts[g] >= 5))
            => /\ UNCHANGED <<sockets, wsRef, reconnectAttempts, isConnecting>>
               /\ timers' \subseteq timers
               /\ Cardinality(timers') = Cardinality(timers) - 1]_vars

C11_Witness ==
  \E g \in Gens : /\ lastOp = <<"timer", g>>
                  /\ reconnectAttempts[g] = 5
                  /\ wsRef # Null
                  /\ sockets[wsRef].readyState = OPEN

\* What a frame that is dropped or ignored must leave alone: the sockets and
\* wsRef, the reconnect timers, counters and isConnecting flags, SyncStatus,
\* the syncing flag, the error, the Event set and the fetches in flight.
FrameLeavesStateAlone ==
  UNCHANGED <<sockets, wsRef, timers, reconnectAttempts, isConnecting,
              syncStatus, syncing, error, events, fetches, timeouts>>

\* C12: ws.onmessage handed a frame that is not JSON, or that parses to null or
\* to a scalar, changes nothing: the socket stays open, no reconnect timer is
\* scheduled, and the counters, SyncStatus, the syncing flag, the error and the
\* Event set are as before.
C12_MalformedFrameDropped ==
  [][(lastOp'[1] = "onmessage" /\ received'.kind \in {"malformed", "null", "scalar"})
       => FrameLeavesStateAlone]_vars

C12_Witness ==
  /\ lastOp[1] = "onmessage"
  /\ received.kind = "malformed"
  /\ syncing
  /\ syncStatus # DefaultSyncStatus
  /\ events # EmptyEvents
  /\ wsRef # Null /\ sockets[wsRef].readyState = OPEN

\* C13: ws.onmessage handed a JSON object whose type is not sync_complete
\* (connection_established, pong, ping, or a type it does not know) changes
\* neither the connection, SyncStatus, the syncing flag nor the Event set and
\* issues no fetch; and a heartbeat tick, whether or not a pong ever answered
\* the previous ping, closes no socket and schedules no reconnect.
C13_OtherFramesIgnored ==
  [][/\ (lastOp'[1] = "onmessage" /\ received'.kind = "json"
                                  /\ received'.type # "sync_complete")
          => FrameLeavesStateAlone
     /\ lastOp'[1] = "heartbeat"
          => UNCHANGED <<sockets, wsRef, timers, reconnectAttempts, isConnecting>>]_vars

C13_Witness ==
  /\ lastOp[1] = "onmessage"
  /\ received.kind = "json" /\ received.type = "event_created"
  /\ syncing
  /\ syncStatus # DefaultSyncStatus
  /\ events # EmptyEvents
  /\ wsRef # Null /\ sockets[wsRef].readyState = OPEN

\* A step in which ws.onmessage ran for a sync_complete frame.
SyncCompleteArrived ==
  /\ lastOp'[1] = "onmessage"
  /\ received'.kind = "json"
  /\ received'.type = "sync_complete"

\* C14: a sync_complete frame whose payload is {} or that has no payload at all
\* sets SyncStatus to {success: false, new_events: 0, updated_events: 0,
\* deleted_events: 0, errors: []}; and for a payload under "data" that has only
\* some of the fields, every field it lacks is false, 0 or [] while every field
\* it has keeps the payload's value.
C14_AbsentFieldsDefault ==
  [][(SyncCompleteArrived /\ received'.key \in {"data", "none"})
       => LET p == received'.data IN
          /\ (received'.key = "none" \/ p.has = {})
               => syncStatus' = [success |-> FALSE, new_events |-> 0,
                                 updated_events |-> 0, deleted_events |-> 0,
                                 errors |-> <<>>]
          /\ received'.key = "data"
               => /\ "success" \notin p.has => syncStatus'.success = FALSE
                  /\ "new_events" \notin p.has => syncStatus'.new_events = 0
                  /\ "updated_events" \notin p.has => syncStatus'.updated_events = 0
                  /\ "deleted_events" \notin p.has => syncStatus'.deleted_events = 0
                  /\ "errors" \notin p.has => syncStatus'.errors = <<>>
                  /\ \A f \in p.has : syncStatus'[f] = p[f]]_vars

C14_Witness ==
  /\ lastOp[1] = "onmessage"
  /\ received.type = "sync_complete"
  /\ received.key = "data"
  /\ received.data.has = {}
  /\ syncStatus = DefaultSyncStatus

\* C15: a sync_complete frame that carries all five fields, under the key
\* "data" or under the key "stats", sets SyncStatus to that payload, field for
\* field.
C15_FullPayloadKept ==
  [][(SyncCompleteArrived /\ received'.key \in {"data", "stats"}
                          /\ received'.data.has = SyncFields)
       => \A f \in SyncFields : syncStatus'[f] = received'.data[f]]_vars

\* C16: every sync_complete frame handed to ws.onmessage, whatever its payload
\* and whether or not syncing is set or a user sync is in flight, leaves
\* syncing false, adds exactly one fetchEvents call to those in flight, and
\* does not touch the Event set itself.
C16_SyncCompleteRefetchesOnce ==
  [][SyncCompleteArrived
       => /\ syncing' = FALSE
          /\ Len(fetches') = Len(fetches) + 1
          /\ SubSeq(fetches', 1, Len(fetches)) = fetches
          /\ events' = events]_vars

C16_Witness ==
  /\ lastOp[1] = "onmessage"
  /\ received.type = "sync_complete"
  /\ syncRequests > 0
  /\ ~syncing
  /\ events # EmptyEvents
  /\ Len(fetches) = 1

\* The SyncStatus a completion that carries payload p alone determines: each
\* field of p, and false, 0 or [] for a field p lacks.
Defaulted(p) ==
  [success |-> IF "success" \in p.has THEN p.success ELSE FALSE,
   new_events |-> IF "new_events" \in p.has THEN p.new_events ELSE 0,
   updated_events |-> IF "updated_events" \in p.has THEN p.updated_events ELSE 0,
   deleted_events |-> IF "deleted_events" \in p.has THEN p.deleted_events ELSE 0,
   errors |-> IF "errors" \in p.has THEN p.errors ELSE <<>>]

\* C17: SyncStatus is always the value the completion that arrived last
\* determines by itself. A sync_complete frame and a successful handleSync
\* response set it to the defaulted value of their payload (the payload a
\* frame carries under "data"; none otherwise), a failed handleSync to the
\* failure status, whatever SyncStatus was before; no other step changes it.
C17_ReplacedByLastArrival ==
  [][/\ SyncCompleteArrived
          => syncStatus' = Defaulted(IF received'.key = "data"
                                     THEN received'.data
                                     ELSE [received'.data EXCEPT !.has = {}])
     /\ lastOp'[1] = "syncResponse" => syncStatus' = Defaulted(received'.data)
     /\ lastOp'[1] = "syncFailure"
          => syncStatus' = [success |-> FALSE, new_events |-> 0,
                            updated_events |-> 0, deleted_events |-> 0,
                            errors |-> <<"Sync failed: error">>]
     /\ (~SyncCompleteArrived /\ lastOp'[1] \notin {"syncResponse", "syncFailure"})
          => syncStatus' = syncStatus]_vars

C17_Witness ==
  /\ lastOp[1] = "syncResponse"
  /\ received.data.has = {"success", "new_events", "errors"}
  /\ syncStatus = [success |-> FALSE, new_events |-> 2, updated_events |-> 0,
                   deleted_events |-> 0, errors |-> <<"quota">>]

\* C18: in every reachable state the three counts of SyncStatus are
\* non-negative integers, whatever payload a sync_complete frame or a sync
\* response carried.
C18_CountsNonNegative ==
  /\ syncStatus.new_events \in Nat
  /\ syncStatus.updated_events \in Nat
  /\ syncStatus.deleted_events \in Nat

\* C19: the step in which a fetchEvents call fails sets the Event set to empty
\* and the error to a message, whatever was displayed before.
C19_FailedFetchClears ==
  [][(lastOp'[1] = "fetchResolved" /\ received'.kind = "fetchFailed")
       => events' = <<"[]", 0>> /\ error' # "null"]_vars

C19_Witness ==
  /\ lastOp[1] = "fetchResolved"
  /\ received.kind = "fetchFailed"
  /\ events = EmptyEvents
  /\ error = "Failed to fetch events from server"
  /\ fetches = <<>>

\* C20: whenever the effect run in force has used up its retry budget (its
\* counter is 5, it has no socket and no reconnect timer left), the state the
\* UI renders says so: the error is set.
C20_ExhaustionVisible ==
  \A g \in Gens :
    (mounted /\ g = mountCount /\ reconnectAttempts[g] = 5
       /\ SocketsOf(g) = {} /\ TimersOf(g) = {})
      => error # NoError

\* The last handler was the resumption of a create or delete request whose
\* api call returned success false or threw.
EditFailed ==
  /\ lastOp[1] \in {"deleteResponse", "createResponse"}
  /\ received.type \in {"failure", "throws"}

\* C21: when api.deleteEvent or api.createEvent returns success false or
\* throws, the handler sets error to a non-null message and leaves the Event
\* set, the SyncStatus, the selection and the event form's open state as
\* they were, and issues no fetch.
C21_FailedEditChangesNothing ==
  [][EditFailed' =>
       /\ error' # NoError
       /\ events' = events
       /\ deleted' = deleted
       /\ syncStatus' = syncStatus
       /\ Selection' = Selection
       /\ eventFormOpen' = eventFormOpen
       /\ fetches' = fetches]_vars

C21_Witness ==
  /\ lastOp[1] = "createResponse"
  /\ received.type = "failure"
  /\ eventFormOpen
  /\ events # EmptyEvents
  /\ error = "Failed to create event"

\* The heartbeat half of C22: a tick sends exactly one ping when wsRef.current
\* is an open socket and none otherwise, every ping goes to an open socket,
\* and no interval ticks for a run whose cleanup has run.
C22_HeartbeatPings ==
  /\ \A i \in 1..Len(sent) : sockets[sent[i]].readyState = OPEN
  /\ lastOp[1] = "heartbeat"
       => /\ lastOp[2] \notin CleanedUp
          /\ sent = IF wsRef # Null /\ sockets[wsRef].readyState = OPEN
                    THEN <<wsRef>> ELSE <<>>

\* C22: ping frames are sent only to an open socket, a heartbeat tick sends
\* exactly one ping when the current connection is open and none otherwise,
\* and no ping is sent by an effect run after its cleanup has run.
C22_NoPingAfterCleanup ==
  /\ C22_HeartbeatPings
  /\ sent # <<>> => lastOp[2] \notin CleanedUp

\* The step made a connection attempt for effect run g: a WebSocket was
\* constructed and became wsRef.current, or the constructor threw and the
\* failure was handled.
AttemptMade(g) ==
  \/ \E s \in SocketIds :
       /\ sockets[s].readyState = CLOSED
       /\ sockets'[s] = [readyState |-> CONNECTING, gen |-> g]
       /\ wsRef' = s
  \/ reconnectAttempts'[g] = reconnectAttempts[g] + 1

\* C23 as stated: no pending reconnect timer is one whose firing connectWebSocket
\* will skip for want of budget, and every reconnect timer that fires while no
\* attempt of its run is in flight makes a connection attempt.
C23_EveryTimerReconnects ==
  [][/\ \A t \in timers' : reconnectAttempts'[t.gen] < maxReconnectAttempts
     /\ \A g \in Gens :
          (lastOp' = <<"timer", g>> /\ ~isConnecting[g]) => AttemptMade(g)]_vars

\* C23, amended: a reconnect timer that fires while the counter of its run is
\* below 5 and no attempt of the run is in flight makes a connection attempt;
\* one that fires with the counter at 5 (the timer the fifth consecutive
\* failure scheduled) does nothing, so the reconnect attempts of a run are
\* made at counter values 0..4 only: four after an initial failed connection.
C23_TimerReconnectsBelowBudget ==
  [][\A g \in Gens :
       lastOp' = <<"timer", g>> =>
         IF reconnectAttempts[g] < maxReconnectAttempts /\ ~isConnecting[g]
         THEN AttemptMade(g)
         ELSE /\ ~AttemptMade(g)
              /\ sockets' = sockets
              /\ wsRef' = wsRef
              /\ timers' \subseteq timers]_vars

C23_Witness ==
  \E g \in Gens : /\ lastOp = <<"timer", g>>
                  /\ reconnectAttempts[g] = maxReconnectAttempts
                  /\ mounted /\ g = mountCount
                  /\ Live = {}
                  /\ timers = {}

\* C24: the refresh a sync_complete frame triggers fetches the events of the
\* selection that is current when the frame arrives.
C24_RefreshUsesCurrentSelection ==
  [][SyncCompleteArrived
       => /\ Len(fetches') = Len(fetches) + 1
          /\ ApiResult(fetches'[Len(fetches')].sel) = ApiResult(Selection)]_vars

\* C25: the fetchEvents call that handleDateRangeChange schedules is for the
\* new selection, as is the one the selection effect issues.
C25_RangeChangeFetchesNewRange ==
  [][lastOp'[1] = "handleDateRangeChange"
       => /\ ApiResult(timeouts'[Len(timeouts')]) = ApiResult(Selection')
          /\ selectedDateRange' # selectedDateRange
               => ApiResult(fetches'[Len(fetches')].sel) = ApiResult(Selection')]_vars

\* C26: each of the two sync completion paths, the sync_complete frame and the
\* successful response of handleSync's own request, clears syncing and calls
\* fetchEvents once.
C26_BothPathsRefresh ==
  [][(\/ SyncCompleteArrived
      \/ /\ lastOp'[1] = "syncResponse"
         /\ received'.data.has = SyncFields
         /\ received'.data.success)
       => /\ ~syncing'
          /\ Len(fetches') = Len(fetches) + 1]_vars

\* C27: when api.syncCalendar throws, handleSync sets error to a message, sets
\* the SyncStatus to a failure with zero counts and exactly one error string,
\* clears syncing, and leaves the Event set and the connection unchanged.
C27_SyncFailureReported ==
  [][lastOp'[1] = "syncFailure"
       => /\ error' # NoError
          /\ ~syncStatus'.success
          /\ syncStatus'.new_events = 0
          /\ syncStatus'.updated_events = 0
          /\ syncStatus'.deleted_events = 0
          /\ Len(syncStatus'.errors) = 1
          /\ ~syncing'
          /\ events' = events /\ deleted' = deleted
          /\ UNCHANGED connVars]_vars

C27_Witness ==
  /\ lastOp[1] = "syncFailure"
  /\ events # EmptyEvents
  /\ wsRef # Null /\ sockets[wsRef].readyState = OPEN
  /\ syncStatus.errors = <<"Sync failed: error">>

\* C28: ws.onopen sends exactly one ping, on the socket that has just opened,
\* unless the send throws; a send that throws leaves the socket open and the
\* counter at the 0 the handler has just set, and schedules nothing; a
\* heartbeat tick pings only a socket that was open before the tick, so the
\* initial ping precedes every heartbeat ping on the socket.
C28_PingOnOpen ==
  [][/\ \A g \in Gens :
          lastOp' = <<"onopen", g>>
            => \E s \in SocketIds :
                 /\ sockets[s] = [readyState |-> CONNECTING, gen |-> g]
                 /\ sockets' = [sockets EXCEPT ![s].readyState = OPEN]
                 /\ sent' = IF received'.kind = "sendFailed" THEN <<>> ELSE <<s>>
                 /\ reconnectAttempts'[g] = 0
                 /\ ~isConnecting'[g]
                 /\ timers' = timers
                 /\ wsRef' = wsRef
     /\ lastOp'[1] = "heartbeat"
          => \A i \in 1..Len(sent') : sockets[sent'[i]].readyState = OPEN]_vars

C28_Witness ==
  /\ lastOp[1] = "onopen"
  /\ received.kind = "sendFailed"
  /\ sent = <<>>
  /\ wsRef # Null
  /\ sockets[wsRef] = [readyState |-> OPEN, gen |-> lastOp[2]]
  /\ reconnectAttempts[lastOp[2]] = 0

\* C29 as stated: at most one api.syncCalendar() request is awaiting its
\* response at any time.
C29_OneSyncInFlight == syncRequests <= 1

\* C29, amended: handleSync starts only while syncing is false and sets it;
\* a request started while another is unanswered was started after something
\* other than that request's response (a sync_complete frame, or another
\* request's failure) had cleared the flag.
C29_SyncStartsOnlyWhenIdle ==
  [][lastOp'[1] = "handleSync"
       => /\ ~syncing
          /\ syncing'
          /\ syncRequests' = syncRequests + 1]_vars

C29_Witness ==
  /\ lastOp[1] = "handleSync"
  /\ syncRequests = 2
  /\ syncing

\* C30: once a fetchEvents call has succeeded, the error a failed fetch set
\* earlier is cleared.
C30_SuccessfulFetchClearsError ==
  (lastOp[1] = "fetchResolved" /\ received.kind = "fetchOk") => error = NoError

\* C31: a successful delete removes the event with that id from the Event set
\* on display just before the response arrived, and changes nothing else of it.
C31_DeleteRemovesFromDisplayed ==
  [][(lastOp'[1] = "deleteResponse" /\ received'.type = "success")
       => \E i \in 1..Len(mutations) :
            /\ mutations[i].op = "delete"
            /\ mutations' = RemoveAt(mutations, i)
            /\ events' = events
            /\ deleted' = deleted \cup {mutations[i].id}]_vars

\* C32: loading is true exactly while a fetchEvents, handleCommand,
\* handleCreateEvent or handleDeleteEvent call is awaiting its api.
C32_LoadingWhileInFlight ==
  loading <=> (fetches # <<>> \/ mutations # <<>> \/ commandRequests > 0)

\* C33: handleCommand with an empty or all-blank command changes nothing and
\* sends no request; with any other command it sends one; when the request
\* settles loading is cleared, the Event set is replaced only by a response
\* that carries events, and an exception leaves the command text and the
\* Event set as they were and sets error.
C33_CommandHandled ==
  [][/\ lastOp'[1] = "handleCommand"
          => IF \A i \in 1..Len(command) : command[i] = " "
             THEN UNCHANGED <<connVars, mountSel, dataVars, editVars, commandVars>>
             ELSE /\ commandRequests' = commandRequests + 1
                  /\ loading'
     /\ lastOp'[1] = "commandResponse"
          => /\ ~loading'
             /\ commandRequests' = commandRequests - 1
             /\ IF received'.type = "events"
                THEN events' = CommandEvents
                ELSE events' = events /\ deleted' = deleted
             /\ received'.type = "throws"
                  => command' = command /\ error' # NoError]_vars

C33_Witness ==
  /\ lastOp[1] = "commandResponse"
  /\ received.type = "throws"
  /\ Trim(command) # <<>>
  /\ events # EmptyEvents
  /\ error = "Command failed"

\* The form's fields pass the validation C34 describes: the title is not
\* blank, start and end are instants, and end >= start.
FormPasses ==
  /\ \E i \in 1..Len(title) : title[i] # " "
  /\ startDate \in Instants
  /\ endDate \in Instants
  /\ endDate >= startDate

\* A message is recorded for every field that fails.
FailingFieldsReported(errs) ==
  /\ (\A i \in 1..Len(title) : title[i] = " ") => \E e \in errs : e[1] = "title"
  /\ startDate \notin Instants => \E e \in errs : e[1] = "startDate"
  /\ (endDate \notin Instants \/ (startDate \in Instants /\ endDate < startDate))
       => \E e \in errs : e[1] = "endDate"

\* C34 for dates that are null or instants: handleSubmit calls onSubmit only
\* when the fields pass, and otherwise records a message for each failing field.
C34_ValidDatesValidated ==
  [][(lastOp'[1] = "handleSubmit" /\ startDate # InvalidDate /\ endDate # InvalidDate)
       => IF FormPasses
          THEN submitted' = <<title, startDate, endDate>> /\ errors' = {}
          ELSE submitted' = NotSubmitted /\ FailingFieldsReported(errors')]_vars

\* C34: handleSubmit calls onSubmit only when the title is not blank, start and
\* end are both set and end >= start; otherwise it does not call onSubmit and
\* records a message for every failing field.
C34_SubmitOnlyWhenValid ==
  [][lastOp'[1] = "handleSubmit"
       => /\ submitted' # NotSubmitted => FormPasses
          /\ ~FormPasses
               => submitted' = NotSubmitted /\ FailingFieldsReported(errors')]_vars

\* C35: a run of run_web.sh that was set up (venv, pip install) and has ended
\* without being interrupted either started the backend and then the frontend,
\* or ended with a non-zero exit status.
C35_ScriptStartsServersOrFails ==
  (script.pc = "exited" /\ script.setUp /\ ~script.signalled)
    => \/ script.status # 0
       \/ script.BACKEND_PID # Unset /\ script.FRONTEND_PID # Unset

\* The start time falls in the day, week or month of the selected date.
InSelectedRange(t, date, dateRange) ==
  \/ dateRange = "day" /\ DayOf(t) = DayOf(date)
  \/ dateRange = "week" /\ DayOf(t) \div 7 = DayOf(date) \div 7
  \/ dateRange = "month" /\ DayOf(t) \div 30 = DayOf(date) \div 30

\* C36: EventList displays exactly the events whose start_time falls in the
\* selected day, week or month of the selected date, each once, in order of
\* non-decreasing start time, and none for an unknown dateRange.
C36_ListShowsSelectedRange ==
  LET shown == eventList.filteredEvents
      evs == eventList.events
  IN /\ {shown[i] : i \in 1..Len(shown)}
          = {evs[i] : i \in {j \in 1..Len(evs) :
                               InSelectedRange(evs[j].start_time, eventList.date,
                                               eventList.dateRange)}}
     /\ \A i, j \in 1..Len(shown) :
          i < j => /\ shown[i].start_time <= shown[j].start_time
                   /\ shown[i].id # shown[j].id
     /\ eventList.dateRange \notin {"day", "week", "month"} => shown = <<>>

C36_Witness ==
  /\ lastOp[1] = "render"
  /\ eventList.dateRange = "week"
  /\ Len(eventList.events) = 3
  /\ Len(eventList.filteredEvents) = 2
  /\ eventList.filteredEvents[1].id > eventList.filteredEvents[2].id
  /\ eventList.filteredEvents[1].start_time < eventList.filteredEvents[2].start_time

====
